---- MODULE Spec2Model ----
(***************************************************************************)
(* A model of rag.py: the retrieval-gated answer pipeline of the RAG       *)
(* chatbot prototype.  Text is a sequence of one-character strings, so     *)
(* that splitting, joining and cleaning are computed and not assumed.      *)
(***************************************************************************)
EXTENDS Integers, Sequences, FiniteSets, TLC

VARIABLES
    restaurants,  \* the loaded knowledge base (load_kb)
    texts,        \* module-level chunk list
    meta,         \* module-level metadata list
    fpc,          \* position of the flatten loop: "idle", "run", "done", "KeyError"
    fr,           \* index of the entity the flatten loop is at
    fi,           \* index of the item the flatten loop is at (0: entity not entered)
    ntotal,       \* faiss_index.ntotal
    conv_max,     \* Conversation.max
    memory,       \* Conversation.memory
    added,        \* history variable: every turn passed to Conversation.add
    pc,           \* position of answer(): "idle", "Start", "Retrieved", ...
    query,        \* answer's query argument
    top_k,        \* answer's top_k argument
    retrieved,    \* answer's local `retrieved`
    prompt,       \* answer's local `prompt`
    result,       \* the value answer returned, or the error it raised
    mem0,         \* history variable: Conversation.memory when answer was called
    genCalls,     \* history variable: generator.generate calls of this cycle
    addCalls,     \* history variable: Conversation.add calls of this cycle
    dd_text,      \* dedupe_tokens' argument
    dd_out,       \* dedupe_tokens' return value
    dd_pc         \* "ready" before the call, "done" after

flattenVars == <<restaurants, texts, meta, fpc, fr, fi>>
convVars    == <<conv_max, memory, added>>
answerVars  == <<pc, query, top_k, retrieved, prompt, result, mem0, genCalls, addCalls>>
dedupeVars  == <<dd_text, dd_out, dd_pc>>
vars == <<restaurants, texts, meta, fpc, fr, fi, ntotal, conv_max, memory, added,
          pc, query, top_k, retrieved, prompt, result, mem0, genCalls, addCalls,
          dd_text, dd_out, dd_pc>>

None == "None"

----------------------------------------------------------------------------
(* Program constants                                                       *)

TOP_K == 3
DISTANCE_THRESHOLD == 1
HISTORY_MAX == 3

(* Bounds of the model                                                     *)

MaxTextLen == 5   \* longest exhaustively enumerated dedupe_tokens input
MaxCap == 2       \* largest Conversation capacity besides HISTORY_MAX
MaxAdds == 4      \* longest sequence of direct Conversation.add calls
MaxEntities == 2  \* most entities of a knowledge base
MaxItems == 2     \* most items of an entity
MaxDist == 2      \* largest distance of a query to an indexed vector
MaxIndex == 2     \* most vectors of a loaded index
MaxK == 2         \* largest top_k besides TOP_K

----------------------------------------------------------------------------
(* Strings                                                                 *)

Whitespace == {" ", "\n"}

Min(a, b) == IF a < b THEN a ELSE b

\* str.split() with no argument: maximal runs of non-whitespace characters
split(text) ==
    LET n == Len(text)
        InToken(i) == text[i] \notin Whitespace
        Starts == {i \in 1..n : InToken(i) /\ (i = 1 \/ ~InToken(i - 1))}
        EndOf(i) == CHOOSE j \in i..n :
                        /\ \A m \in i..j : InToken(m)
                        /\ j = n \/ ~InToken(j + 1)
        Nth(k) == CHOOSE i \in Starts : Cardinality({m \in Starts : m < i}) = k - 1
    IN [k \in 1..Cardinality(Starts) |-> SubSeq(text, Nth(k), EndOf(Nth(k)))]

\* sep.join(parts)
RECURSIVE join(_, _)
join(sep, parts) ==
    IF parts = <<>> THEN <<>>
    ELSE IF Len(parts) = 1 THEN parts[1]
    ELSE parts[1] \o sep \o join(sep, Tail(parts))

\* A mutant of dedupe_tokens: a token is dropped when it was kept anywhere before.
dedupe_tokens_global(text) ==
    LET toks == split(text)
        RECURSIVE loop(_, _)
        loop(i, out) ==
            IF i > Len(toks) THEN out
            ELSE IF \A j \in 1..Len(out) : toks[i] # out[j]
                 THEN loop(i + 1, Append(out, toks[i]))
                 ELSE loop(i + 1, out)
    IN join(<<" ">>, loop(1, <<>>))

dedupe_tokens(text) ==
    LET toks == split(text)
        RECURSIVE loop(_, _)
        loop(i, out) ==
            IF i > Len(toks) THEN out
            ELSE IF toks[i] # out[Len(out)]
                 THEN loop(i + 1, Append(out, toks[i]))
                 ELSE loop(i + 1, out)
    IN join(<<" ">>, IF toks = <<>> THEN <<>> ELSE loop(2, <<toks[1]>>))

\* The canned refusal of answer()
REFUSAL ==
    join(<<" ">>,
      << <<"I">>, <<"d", "o">>, <<"n", "o", "t">>, <<"k", "n", "o", "w", ".">>,
         <<"T", "h", "e">>, <<"k", "n", "o", "w", "l", "e", "d", "g", "e">>,
         <<"b", "a", "s", "e">>, <<"d", "o", "e", "s">>, <<"n", "o", "t">>,
         <<"c", "o", "n", "t", "a", "i", "n">>,
         <<"i", "n", "f", "o", "r", "m", "a", "t", "i", "o", "n">>,
         <<"r", "e", "l", "e", "v", "a", "n", "t">>, <<"t", "o">>,
         <<"t", "h", "i", "s">>,
         <<"q", "u", "e", "s", "t", "i", "o", "n", ".">> >>)

----------------------------------------------------------------------------
(* clean                                                                   *)

UpperCase == <<"A", "B", "C", "D", "E", "F", "G", "H", "I", "J", "K", "L", "M",
               "N", "O", "P", "Q", "R", "S", "T", "U", "V", "W", "X", "Y", "Z">>
LowerCase == <<"a", "b", "c", "d", "e", "f", "g", "h", "i", "j", "k", "l", "m",
               "n", "o", "p", "q", "r", "s", "t", "u", "v", "w", "x", "y", "z">>
Digits == {"0", "1", "2", "3", "4", "5", "6", "7", "8", "9"}
Range(f) == {f[i] : i \in DOMAIN f}

\* characters outside ASCII: a precomposed letter, its combining mark, a symbol
NonAscii == {"e_acute", "combining_acute", "registered_sign"}

\* unicodedata.normalize("NFKD", c) of one character
NFKD(c) == IF c = "e_acute" THEN <<"e", "combining_acute">> ELSE <<c>>

\* str.lower() of one character
lower(c) ==
    IF c \in Range(UpperCase)
    THEN LowerCase[CHOOSE i \in 1..Len(UpperCase) : UpperCase[i] = c]
    ELSE c

\* \w and \s of PUNCT_RE, on ASCII
IsWordChar(c) == c \in Range(UpperCase) \cup Range(LowerCase) \cup Digits \cup {"_"}

\* unicodedata.normalize("NFKD", text)
RECURSIVE normalize(_)
normalize(text) ==
    IF text = <<>> THEN <<>>
    ELSE IF Len(text) = 1 THEN NFKD(text[1])
    ELSE LET h == Len(text) \div 2
         IN normalize(SubSeq(text, 1, h)) \o normalize(SubSeq(text, h + 1, Len(text)))

clean(text) ==
    IF text = None \/ text = <<>> THEN <<>>
    ELSE LET decomposed == normalize(text)
             ascii == SelectSeq(decomposed, LAMBDA c : c \notin NonAscii)
             lowered == [i \in 1..Len(ascii) |-> lower(ascii[i])]
             nopunct == [i \in 1..Len(lowered) |->
                           IF IsWordChar(lowered[i]) \/ lowered[i] \in Whitespace
                           THEN lowered[i] ELSE " "]
         IN \* re.sub(r"\s+", " ", text).strip()
            join(<<" ">>, split(nopunct))

----------------------------------------------------------------------------
(* Conversation                                                            *)

\* A mutant of ConvAdd: the oldest turn is never evicted.
ConvAddNoEvict(mem, max, user, assistant) == Append(mem, <<user, assistant>>)

\* Conversation.add: the memory after add(user, assistant)
ConvAdd(mem, max, user, assistant) ==
    LET m == Append(mem, <<user, assistant>>)
    IN IF Len(m) > max THEN Tail(m) ELSE m

\* Conversation.format_history
format_history(mem) ==
    IF mem = <<>> THEN <<>>
    ELSE join(<<"\n">>,
              [i \in 1..Len(mem) |->
                  <<"U", "s", "e", "r", ":", " ">> \o mem[i][1] \o <<"\n">> \o
                  <<"A", "s", "s", "i", "s", "t", "a", "n", "t", ":", " ">> \o mem[i][2]])
         \o <<"\n">>

----------------------------------------------------------------------------
(* Specification of dedupe_tokens alone                                    *)

DedupeAlphabet == {"a", "A", " ", "\n"}

StutterExample == <<"a", " ", "a", " ", "b", " ", "b", " ", "b", " ", "c">>

DedupeInputs ==
    UNION {[1..n -> DedupeAlphabet] : n \in 0..MaxTextLen}
        \cup {StutterExample, REFUSAL}

IdleFlatten ==
    /\ restaurants = <<>> /\ texts = <<>> /\ meta = <<>>
    /\ fpc = "idle" /\ fr = 1 /\ fi = 0
IdleIndex == ntotal = 0
IdleConv == conv_max = HISTORY_MAX /\ memory = <<>> /\ added = <<>>
IdleAnswer ==
    /\ pc = "idle" /\ query = None /\ top_k = TOP_K /\ retrieved = <<>>
    /\ prompt = None /\ result = None /\ mem0 = <<>>
    /\ genCalls = 0 /\ addCalls = 0
IdleDedupe == dd_text = <<>> /\ dd_out = None /\ dd_pc = "ready"

InitDedupe ==
    /\ dd_text \in DedupeInputs /\ dd_out = None /\ dd_pc = "ready"
    /\ IdleFlatten /\ IdleIndex /\ IdleConv /\ IdleAnswer

DedupeCall ==
    /\ dd_pc = "ready"
    /\ dd_out' = dedupe_tokens(dd_text)
    /\ dd_pc' = "done"
    /\ UNCHANGED <<dd_text, flattenVars, ntotal, convVars, answerVars>>

NextDedupe == DedupeCall

SpecDedupe == InitDedupe /\ [][NextDedupe]_vars

----------------------------------------------------------------------------
(* Specification of Conversation alone: add() called directly              *)

Users == {<<"q">>, <<"r">>}
Assistants == {<<"x">>, <<"y">>}
Capacities == 0..MaxCap \cup {HISTORY_MAX}

InitConv ==
    /\ conv_max \in Capacities /\ memory = <<>> /\ added = <<>>
    /\ IdleFlatten /\ IdleIndex /\ IdleAnswer /\ IdleDedupe

ConvAddCall ==
    /\ Len(added) < MaxAdds
    /\ \E u \in Users, a \in Assistants :
          /\ memory' = ConvAdd(memory, conv_max, u, a)
          /\ added' = Append(added, <<u, a>>)
    /\ UNCHANGED <<conv_max, flattenVars, ntotal, answerVars, dedupeVars>>

NextConv == ConvAddCall

SpecConv == InitConv /\ [][NextConv]_vars

----------------------------------------------------------------------------
(* Flattening the knowledge base into texts and meta                       *)

Has(d, key) == key \in DOMAIN d

\* the keys the f-string of an item reads, before texts.append
ChunkKeys == {"category", "item_name", "description", "special_features"}
\* the keys the metadata dict of an item reads, before meta.append
MetaKeys == {"category", "item_name", "product_url", "price", "special_features"}
EntityKeys == {"restaurant_name", "location", "items"}

\* it['special_features'] or []
OrEmpty(v) == IF v = None THEN <<>> ELSE v

txt_raw(rname, rloc, it) ==
    rname \o <<" ">> \o rloc \o <<" ">> \o it.category \o <<" ">> \o
    it.item_name \o <<" ">> \o it.description \o <<" ">> \o
    join(<<" ">>, OrEmpty(it.special_features))

ItemChunk(r, it) == clean(txt_raw(r.restaurant_name, r.location, it))

ItemMeta(r, it) ==
    [restaurant |-> r.restaurant_name, category |-> it.category,
     item_name |-> it.item_name, url |-> it.product_url,
     price |-> it.price, features |-> it.special_features]

\* the (entity, item) pairs of a knowledge base in loop order
RECURSIVE FlatItems(_)
FlatItems(kb) ==
    IF kb = <<>> THEN <<>>
    ELSE (IF Has(kb[1], "items")
          THEN [i \in 1..Len(kb[1].items) |-> <<kb[1], kb[1].items[i]>>]
          ELSE <<>>) \o FlatItems(Tail(kb))

BigMac ==
    [category |-> <<"B">>, item_name |-> <<"M", "a", "c", "registered_sign">>,
     description |-> <<"b", "e", "e", "f", "!">>,
     special_features |-> << <<"h", "o", "t">>, <<"n", "e", "w">> >>,
     product_url |-> <<"u", "1">>, price |-> <<"5">>]
Salad ==
    [category |-> <<"S">>, item_name |-> <<"S", "a", "l", "a", "d">>,
     description |-> <<"v", "e", "g", "e_acute">>,
     special_features |-> None,
     product_url |-> <<"u", "2">>, price |-> <<"3">>]
NoUrlItem ==
    [category |-> <<"D">>, item_name |-> <<"T", "e", "a">>,
     description |-> <<"h", "o", "t">>, special_features |-> <<>>,
     price |-> <<"1">>]
NoDescriptionItem ==
    [category |-> <<"D">>, item_name |-> <<"P", "o", "p">>,
     special_features |-> <<>>, product_url |-> <<"u", "4">>, price |-> <<"2">>]

ItemPool == {BigMac, Salad, NoUrlItem, NoDescriptionItem}

SeqsUpTo(S, n) == UNION {[1..m -> S] : m \in 0..n}

EntityPool ==
    {[restaurant_name |-> <<"M", "c", "D">>, location |-> <<"N", "Y">>, items |-> its] :
        its \in SeqsUpTo(ItemPool, MaxItems)}
    \cup {[restaurant_name |-> <<"K", "F", "C">>, items |-> <<BigMac>>],
          [restaurant_name |-> <<"K", "F", "C">>, location |-> <<"L", "A">>]}

Corpora == SeqsUpTo(EntityPool, MaxEntities)

InitFlatten ==
    /\ restaurants \in Corpora
    /\ texts = <<>> /\ meta = <<>>
    /\ fpc = "run" /\ fr = 1 /\ fi = 0
    /\ IdleIndex /\ IdleConv /\ IdleAnswer /\ IdleDedupe

\* for r in restaurants: rname, rloc = r["restaurant_name"], r["location"];
\* then r["items"] is read to start the inner loop
FlattenEntity ==
    /\ fpc = "run" /\ fr <= Len(restaurants) /\ fi = 0
    /\ \/ /\ EntityKeys \subseteq DOMAIN restaurants[fr]
          /\ fi' = 1 /\ UNCHANGED fpc
       \/ /\ ~(EntityKeys \subseteq DOMAIN restaurants[fr])
          /\ fpc' = "KeyError" /\ UNCHANGED fi
    /\ UNCHANGED <<restaurants, texts, meta, fr, ntotal, convVars, answerVars, dedupeVars>>

\* one iteration of the inner loop
FlattenItem ==
    /\ fpc = "run" /\ fr <= Len(restaurants) /\ fi >= 1
    /\ fi <= Len(restaurants[fr].items)
    /\ LET r == restaurants[fr]
           it == r.items[fi]
       IN \/ /\ ~(ChunkKeys \subseteq DOMAIN it)       \* KeyError in the f-string
             /\ fpc' = "KeyError"
             /\ UNCHANGED <<texts, meta, fi>>
          \/ /\ ChunkKeys \subseteq DOMAIN it           \* KeyError in the dict
             /\ ~(MetaKeys \subseteq DOMAIN it)
             /\ texts' = Append(texts, ItemChunk(r, it))
             /\ fpc' = "KeyError"
             /\ UNCHANGED <<meta, fi>>
          \/ /\ ChunkKeys \subseteq DOMAIN it
             /\ MetaKeys \subseteq DOMAIN it
             /\ texts' = Append(texts, ItemChunk(r, it))
             /\ meta' = Append(meta, ItemMeta(r, it))
             /\ fi' = fi + 1
             /\ UNCHANGED fpc
    /\ UNCHANGED <<restaurants, fr, ntotal, convVars, answerVars, dedupeVars>>

\* the inner loop is exhausted
FlattenNextEntity ==
    /\ fpc = "run" /\ fr <= Len(restaurants) /\ fi >= 1
    /\ fi > Len(restaurants[fr].items)
    /\ fr' = fr + 1 /\ fi' = 0
    /\ UNCHANGED <<restaurants, texts, meta, fpc, ntotal, convVars, answerVars, dedupeVars>>

\* the outer loop is exhausted
FlattenDone ==
    /\ fpc = "run" /\ fr > Len(restaurants)
    /\ fpc' = "done"
    /\ UNCHANGED <<restaurants, texts, meta, fr, fi, ntotal, convVars, answerVars, dedupeVars>>

NextFlatten == FlattenEntity \/ FlattenItem \/ FlattenNextEntity \/ FlattenDone

SpecFlatten == InitFlatten /\ [][NextFlatten]_vars

----------------------------------------------------------------------------
(* Retrieval                                                               *)

\* the distance FAISS reports for a result slot it could not fill
\* (FLT_MAX: larger than every distance of the model)
FLT_MAX == MaxDist + 1

Distances == 0..MaxDist

\* Python's list[i]: does not raise iff -len <= i < len
InRange(list, i) == -Len(list) <= i /\ i < Len(list)
PyIndex(list, i) == IF i >= 0 THEN list[i + 1] ELSE list[Len(list) + i + 1]

\* faiss_index.search(q_emb, k) on an IndexFlatL2 of n vectors at distances d
\* from the query: the min(k, n) nearest labels by non-decreasing distance
\* (ties in any order), then label -1 at distance FLT_MAX up to k slots
search(d, n, k) ==
    LET m == Min(k, n)
        Nearest ==
            {s \in [1..m -> 0..(n - 1)] :
                /\ \A i, j \in 1..m : i < j => s[i] # s[j] /\ d[s[i]] <= d[s[j]]
                /\ \A v \in 0..(n - 1) :
                      (\A i \in 1..m : s[i] # v) => \A i \in 1..m : d[s[i]] <= d[v]}
    IN {[rank \in 1..k |->
            IF rank <= m THEN [label |-> s[rank], distance |-> d[s[rank]]]
            ELSE [label |-> -1, distance |-> FLT_MAX]] : s \in Nearest}

\* the list comprehension of retrieve raises IndexError
JoinRaises(found) ==
    \E rank \in 1..Len(found) :
        ~InRange(texts, found[rank].label) \/ ~InRange(meta, found[rank].label)

\* the list comprehension of retrieve
JoinResults(found) ==
    [rank \in 1..Len(found) |->
        [text |-> PyIndex(texts, found[rank].label),
         meta |-> PyIndex(meta, found[rank].label),
         distance |-> found[rank].distance]]

----------------------------------------------------------------------------
(* answer                                                                  *)

\* make_prompt: the slots of its template
make_prompt(q, ctx_chunks, history) ==
    [system |-> "SYSTEM", history |-> history,
     ctx |-> join(<<"\n">>, ctx_chunks), query |-> q]

\* A mutant of GateRefuses: the comparison is inverted.
GateRefusesNear(ret) == ret = <<>> \/ ret[1].distance < DISTANCE_THRESHOLD

\* A mutant of GateRefuses: a distance equal to the threshold is refused.
GateRefusesAtThreshold(ret) == ret = <<>> \/ ret[1].distance >= DISTANCE_THRESHOLD

\* the out-of-scope check of answer
GateRefuses(ret) == ret = <<>> \/ ret[1].distance > DISTANCE_THRESHOLD

Queries == {<<"B", "i", "g", " ", "M", "a", "c", "registered_sign", "?">>,
            <<"t", "e", "a">>}

\* texts tokenizer.decode may return
GenOutputs == {REFUSAL, <<"y", "e", "s", " ", "y", "e", "s", " ", "n", "o">>}

TopKs == 1..MaxK \cup {TOP_K}

McD(its) == [restaurant_name |-> <<"M", "c", "D">>, location |-> <<"N", "Y">>, items |-> its]

\* knowledge bases the flatten loop completes on
GoodCorpora == {<<>>, <<McD(<<BigMac>>)>>, <<McD(<<BigMac, Salad>>)>>}

Init ==
    /\ restaurants \in GoodCorpora
    /\ texts = [i \in 1..Len(FlatItems(restaurants)) |->
                    ItemChunk(FlatItems(restaurants)[i][1], FlatItems(restaurants)[i][2])]
    /\ meta = [i \in 1..Len(FlatItems(restaurants)) |->
                   ItemMeta(FlatItems(restaurants)[i][1], FlatItems(restaurants)[i][2])]
    /\ fpc = "done" /\ fr = Len(restaurants) + 1 /\ fi = 0
    /\ ntotal \in 0..MaxIndex     \* a built index has len(texts) vectors, a loaded one any
    /\ conv_max \in Capacities /\ memory = <<>> /\ added = <<>>
    /\ IdleAnswer /\ IdleDedupe

\* answer(q, conv, k) is called
Start ==
    /\ pc \in {"idle", "Responded", "Failed"}
    /\ \E q \in Queries, k \in TopKs : query' = q /\ top_k' = k
    /\ pc' = "Start"
    /\ mem0' = memory
    /\ retrieved' = <<>> /\ prompt' = None /\ result' = None
    /\ genCalls' = 0 /\ addCalls' = 0
    /\ UNCHANGED <<flattenVars, ntotal, convVars, dedupeVars>>

\* retrieved = retrieve(query, top_k)
Retrieve ==
    /\ pc = "Start"
    /\ \/ /\ pc' = "Failed"                       \* embedder.encode raises
          /\ result' = [error |-> "ProviderError"]
          /\ UNCHANGED retrieved
       \/ \E d \in [0..(ntotal - 1) -> Distances] :
            \E found \in search(d, ntotal, top_k) :
               \/ /\ JoinRaises(found)
                  /\ pc' = "Failed"
                  /\ result' = [error |-> "IndexError"]
                  /\ UNCHANGED retrieved
               \/ /\ ~JoinRaises(found)
                  /\ retrieved' = JoinResults(found)
                  /\ pc' = "Retrieved"
                  /\ UNCHANGED result
    /\ UNCHANGED <<query, top_k, prompt, mem0, genCalls, addCalls,
                   flattenVars, ntotal, convVars, dedupeVars>>

\* the out-of-scope check, and make_prompt when it passes
Gate ==
    /\ pc = "Retrieved"
    /\ \/ /\ GateRefuses(retrieved)
          /\ pc' = "Refused"
          /\ UNCHANGED prompt
       \/ /\ ~GateRefuses(retrieved)
          /\ prompt' = make_prompt(query,
                                   [i \in 1..Len(retrieved) |-> retrieved[i].text],
                                   format_history(memory))
          /\ pc' = "Generating"
    /\ UNCHANGED <<query, top_k, retrieved, result, mem0, genCalls, addCalls,
                   flattenVars, ntotal, convVars, dedupeVars>>

\* A mutant of Refuse: the retrieved results are returned with the refusal.
RefuseWithEvidence ==
    /\ pc = "Refused"
    /\ memory' = ConvAdd(memory, conv_max, query, REFUSAL)
    /\ addCalls' = addCalls + 1
    /\ result' = [response |-> REFUSAL, evidence |-> retrieved]
    /\ pc' = "Responded"
    /\ UNCHANGED <<query, top_k, retrieved, prompt, mem0, genCalls,
                   flattenVars, ntotal, conv_max, added, dedupeVars>>

\* the refusal branch: conv.add(query, response); return response, []
Refuse ==
    /\ pc = "Refused"
    /\ memory' = ConvAdd(memory, conv_max, query, REFUSAL)
    /\ addCalls' = addCalls + 1
    /\ result' = [response |-> REFUSAL, evidence |-> <<>>]
    /\ pc' = "Responded"
    /\ UNCHANGED <<query, top_k, retrieved, prompt, mem0, genCalls,
                   flattenVars, ntotal, conv_max, added, dedupeVars>>

\* A mutant of Generate: the turn is recorded before the generator is called,
\* with the raw text when it returns one.
GenerateAddsFirst ==
    /\ pc = "Generating"
    /\ genCalls' = genCalls + 1
    /\ \E raw \in GenOutputs :
          /\ memory' = ConvAdd(memory, conv_max, query, raw)
          /\ addCalls' = addCalls + 1
          /\ \/ /\ pc' = "Failed"
                /\ result' = [error |-> "ProviderError"]
             \/ /\ result' = [response |-> dedupe_tokens(raw), evidence |-> retrieved]
                /\ pc' = "Responded"
    /\ UNCHANGED <<query, top_k, retrieved, prompt, mem0,
                   flattenVars, ntotal, conv_max, added, dedupeVars>>

\* A mutant of Generate: the decoded text is recorded before post-processing.
GenerateAddsRaw ==
    /\ pc = "Generating"
    /\ genCalls' = genCalls + 1
    /\ \/ /\ pc' = "Failed"
          /\ result' = [error |-> "ProviderError"]
          /\ UNCHANGED <<memory, addCalls>>
       \/ \E raw \in GenOutputs :
            /\ memory' = ConvAdd(memory, conv_max, query, raw)
            /\ addCalls' = addCalls + 1
            /\ result' = [response |-> dedupe_tokens(raw), evidence |-> retrieved]
            /\ pc' = "Responded"
    /\ UNCHANGED <<query, top_k, retrieved, prompt, mem0,
                   flattenVars, ntotal, conv_max, added, dedupeVars>>

\* tokenizer(...), generator.generate(...), tokenizer.decode, dedupe_tokens,
\* conv.add(query, response); return response, retrieved
Generate ==
    /\ pc = "Generating"
    /\ genCalls' = genCalls + 1
    /\ \/ /\ pc' = "Failed"                       \* generator.generate raises
          /\ result' = [error |-> "ProviderError"]
          /\ UNCHANGED <<memory, addCalls>>
       \/ \E raw \in GenOutputs :
            LET response == dedupe_tokens(raw)
            IN /\ memory' = ConvAdd(memory, conv_max, query, response)
               /\ addCalls' = addCalls + 1
               /\ result' = [response |-> response, evidence |-> retrieved]
               /\ pc' = "Responded"
    /\ UNCHANGED <<query, top_k, retrieved, prompt, mem0,
                   flattenVars, ntotal, conv_max, added, dedupeVars>>

Next == Start \/ Retrieve \/ Gate \/ Refuse \/ Generate

Spec == Init /\ [][Next]_vars

----------------------------------------------------------------------------
(* C8: dedupe_tokens keeps a token exactly when it differs from the        *)
(* immediately preceding kept token: the tokens of the output are the      *)
(* tokens of the input with every run of equal adjacent tokens replaced by *)
(* one token, no two adjacent output tokens are equal, the comparison is   *)
(* exact and case-sensitive, [a,a,b,b,b,c] gives [a,b,c], and an input     *)
(* without adjacent repeats keeps all its tokens.                          *)

\* the tokens that start a run: token i is kept iff it is the first or
\* differs from input token i-1
RECURSIVE RunHeads(_)
RunHeads(toks) ==
    IF Len(toks) <= 1 THEN toks
    ELSE LET rest == RunHeads(Tail(toks))
         IN IF toks[1] = toks[2] THEN rest ELSE <<toks[1]>> \o rest

NoAdjacentRepeat(toks) == \A i \in 1..(Len(toks) - 1) : toks[i] # toks[i + 1]

C8_DedupeCollapses ==
    dd_pc = "done" =>
        LET tin == split(dd_text)
            tout == split(dd_out)
        IN /\ tout = RunHeads(tin)
           /\ NoAdjacentRepeat(tout)
           /\ NoAdjacentRepeat(tin) => tout = tin
           /\ dd_out = join(<<" ">>, tout)
           /\ dd_text = StutterExample => tout = << <<"a">>, <<"b">>, <<"c">> >>

\* a call that collapsed a run and kept a token that had occurred before,
\* in another case
C8_Witness ==
    /\ dd_pc = "done"
    /\ dd_text = <<"a", " ", "a", " ", "A">>
    /\ dd_out = <<"a", " ", "A">>

----------------------------------------------------------------------------
(* C1: with capacity N, after any sequence of add calls from the empty     *)
(* memory, the memory holds at most N turns, and they are the most recent  *)
(* min(N, number of adds) turns, oldest first.                             *)

LastN(s, n) == SubSeq(s, Len(s) - n + 1, Len(s))

C1_MemoryBound ==
    /\ Len(memory) <= conv_max
    /\ memory = LastN(added, Min(conv_max, Len(added)))

\* more turns were added than the capacity holds, so the oldest were evicted
C1_Witness ==
    /\ conv_max >= 1
    /\ Len(added) > conv_max + 1
    /\ Len(memory) = conv_max
    /\ memory[1] # added[1]

----------------------------------------------------------------------------
(* C7: when flattening has finished or failed, texts and meta have equal   *)
(* length, and texts[i] and meta[i] are derived from the same item, the    *)
(* i-th item in entity order and then item declaration order.              *)

Aligned ==
    /\ Len(texts) = Len(meta)
    /\ \A i \in 1..Len(texts) :
          LET p == FlatItems(restaurants)[i]
          IN texts[i] = ItemChunk(p[1], p[2]) /\ meta[i] = ItemMeta(p[1], p[2])

C7_AlignedWhenFinishedOrFailed == fpc \in {"done", "KeyError"} => Aligned

----------------------------------------------------------------------------
(* C2: whenever the nearest retrieved result is farther than               *)
(* DISTANCE_THRESHOLD, answer returns the exact refusal text and an empty  *)
(* evidence list, for any query and any Conversation state.                *)

TopIsFar == retrieved # <<>> /\ retrieved[1].distance > DISTANCE_THRESHOLD

C2_GateCorrect ==
    TopIsFar =>
        /\ pc \in {"Retrieved", "Refused", "Responded"}
        /\ pc = "Responded" => result = [response |-> REFUSAL, evidence |-> <<>>]

\* a refused call on a conversation that already holds a turn
C2_Witness ==
    /\ TopIsFar /\ pc = "Responded" /\ mem0 # <<>>
    /\ retrieved[1].distance <= MaxDist

----------------------------------------------------------------------------
(* C3 as stated: a completed call returns a pair whose evidence list is    *)
(* empty if and only if the response is the refusal text, whatever the     *)
(* generator returns.                                                      *)

C3_EmptyIffRefusalText ==
    pc = "Responded" =>
        /\ DOMAIN result = {"response", "evidence"}
        /\ result.evidence = <<>> <=> result.response = REFUSAL

(* C3 as amended: a completed call returns a pair whose evidence list is   *)
(* empty if and only if the gate refused (the generator was not called);   *)
(* an empty evidence list implies the refusal text, and the evidence of a  *)
(* generated response is the non-empty retrieved list.                     *)

C3_EmptyIffRefused ==
    pc = "Responded" =>
        /\ DOMAIN result = {"response", "evidence"}
        /\ result.evidence = <<>> <=> genCalls = 0
        /\ result.evidence = <<>> => result.response = REFUSAL
        /\ genCalls > 0 => result.evidence = retrieved /\ retrieved # <<>>

\* a generated response that is the refusal text, returned with evidence
C3_Witness ==
    /\ pc = "Responded" /\ genCalls = 1
    /\ result.response = REFUSAL /\ result.evidence # <<>>

----------------------------------------------------------------------------
(* C4: when the embedding call or the generation call fails, answer ends   *)
(* with the error and the Conversation memory is what it was when answer   *)
(* was called: no add was made.                                            *)

C4_FailureLeavesMemory ==
    (pc = "Failed" /\ result = [error |-> "ProviderError"]) =>
        memory = mem0 /\ addCalls = 0

\* the generator failed in a call on a full memory
C4_Witness ==
    /\ pc = "Failed" /\ result = [error |-> "ProviderError"]
    /\ genCalls = 1 /\ conv_max >= 1 /\ Len(mem0) = conv_max

----------------------------------------------------------------------------
(* C5: retrieve(query, k) returns results sorted by non-decreasing         *)
(* distance, at most k of them, and fewer than k (at most the number of    *)
(* indexed vectors) when the index holds fewer than k vectors.             *)

SortedByDistance(ret) ==
    \A i \in 1..(Len(ret) - 1) : ret[i].distance <= ret[i + 1].distance

C5_RetrieveSortedBounded ==
    pc = "Retrieved" =>
        /\ SortedByDistance(retrieved)
        /\ Len(retrieved) <= top_k
        /\ ntotal < top_k => Len(retrieved) < top_k /\ Len(retrieved) <= ntotal

----------------------------------------------------------------------------
(* C6: for a normal query (the embedder answers) and k >= 1, retrieve      *)
(* never raises, whatever the sizes of the index and of the chunk list,    *)
(* and it returns an empty sequence only if the index is empty.            *)

C6_RetrieveNeverRaises ==
    /\ ~(pc = "Failed" /\ result = [error |-> "IndexError"])
    /\ (pc = "Retrieved" /\ retrieved = <<>>) => ntotal = 0

----------------------------------------------------------------------------
(* C9: a cycle of answer goes Start, Retrieved, then Refused or            *)
(* Generating, then Responded; the generator is called only in Generating, *)
(* after retrieval, with a non-empty retrieved list whose nearest distance *)
(* is at most the threshold; a distance equal to the threshold goes to     *)
(* Generating; a refused cycle never calls the generator.                  *)

CycleSteps ==
    {<<"idle", "Start">>, <<"Responded", "Start">>, <<"Failed", "Start">>,
     <<"Start", "Retrieved">>, <<"Retrieved", "Refused">>,
     <<"Retrieved", "Generating">>, <<"Refused", "Responded">>,
     <<"Generating", "Responded">>,
     <<"Start", "Failed">>, <<"Generating", "Failed">>}

C9_CycleOrder ==
    [][/\ pc' # pc => <<pc, pc'>> \in CycleSteps
       /\ genCalls' > genCalls =>
             /\ pc = "Generating" /\ genCalls' = genCalls + 1
             /\ retrieved # <<>>
             /\ retrieved[1].distance <= DISTANCE_THRESHOLD
       /\ pc' = "Generating" =>
             pc = "Retrieved" /\ retrieved # <<>>
             /\ retrieved[1].distance <= DISTANCE_THRESHOLD
       /\ (pc = "Retrieved" /\ retrieved # <<>>
             /\ retrieved[1].distance = DISTANCE_THRESHOLD) => pc' = "Generating"
       /\ pc' = "Refused" => genCalls' = 0
       /\ pc = "Refused" => pc' = "Responded" /\ genCalls' = 0]_vars

\* a generated answer for a nearest result exactly at the threshold
C9_Witness ==
    /\ pc = "Responded" /\ genCalls = 1
    /\ retrieved[1].distance = DISTANCE_THRESHOLD

----------------------------------------------------------------------------
(* C10: a completed call of answer has made exactly one Conversation.add,  *)
(* as its last step, of the query and the response it returns; with        *)
(* capacity >= 1 the newest turn is (query, returned response); until then *)
(* the memory is untouched, and the history in the prompt is the history   *)
(* of the turns recorded before the call.                                  *)

C10_OneAddAtTheEnd ==
    /\ pc = "Responded" =>
          /\ addCalls = 1
          /\ memory = ConvAdd(mem0, conv_max, query, result.response)
          /\ conv_max >= 1 => memory[Len(memory)] = <<query, result.response>>
    /\ pc \in {"Start", "Retrieved", "Refused", "Generating", "Failed"} =>
          addCalls = 0 /\ memory = mem0
    /\ (pc = "Generating" \/ genCalls > 0) =>
          prompt.history = format_history(mem0)

\* a generated, post-processed answer recorded after an earlier turn was evicted
C10_Witness ==
    /\ pc = "Responded" /\ genCalls = 1
    /\ conv_max >= 1 /\ Len(mem0) = conv_max
    /\ result.response = <<"y", "e", "s", " ", "n", "o">>
    /\ memory[Len(memory)] = <<query, result.response>>
    /\ prompt.history # <<>>

====
